---- MODULE Spec2Model ----
(***************************************************************************)
(* The WhatsApp preview webhook handler receiveMessagePreview              *)
(* (apps/builder/src/features/whatsapp/receiveMessagePreview.ts).          *)
(*                                                                         *)
(* An invocation is the async mutation of lines 33-74.  It is cut at its   *)
(* await points: between two awaits the code runs without interleaving.    *)
(* The collaborators deleteSession, resumeWhatsAppFlow and Sentry are      *)
(* outside the file: the model records every call made to them, in order,  *)
(* in the log `calls`, and lets deleteSession and resumeWhatsAppFlow       *)
(* settle either way.                                                      *)
(***************************************************************************)
EXTENDS Integers, Sequences, FiniteSets, TLC

(***************************************************************************)
(* Bounds of the payloads the model enumerates.                            *)
(***************************************************************************)
\* Number of distinct phone numbers / recipient identifiers.
NumIds == 2
\* Number of elements that follow the first one in an array that has extras.
MaxExtra == 1

(***************************************************************************)
(* JavaScript values.  A value that may be undefined is a sequence of      *)
(* length at most one: Undefined is the empty one, Def(v) holds v.         *)
(***************************************************************************)
Undefined == <<>>
Def(v) == <<v>>
IsDef(o) == Len(o) > 0
Val(o) == o[1]

\* Variant: at(-1), the last element.
At0_Last(arr) == IF Len(arr) > 0 THEN Def(arr[Len(arr)]) ELSE Undefined

\* Array.prototype.at(0): the first element, undefined on an empty array.
At0(arr) == IF Len(arr) > 0 THEN Def(arr[1]) ELSE Undefined

\* o?.at(0) on an optional array.
OptAt0(o) == IF IsDef(o) THEN At0(Val(o)) ELSE Undefined

whatsAppPreviewSessionIdPrefix == "wa-preview-"

\* Variant: the prefix of the production sessions instead of the preview one.
PreviewSessionId_ProductionPrefix(id) == "wa-" \o id

\* `${whatsAppPreviewSessionIdPrefix}${id}` (lines 44 and 104).
\* Variant: one session for the whole preview, whoever the sender is.
PreviewSessionId_OneSession(id) == whatsAppPreviewSessionIdPrefix

PreviewSessionId(id) == whatsAppPreviewSessionIdPrefix \o id

\* The three codes of incomingWebhookErrorCodes the handler looks up.  The
\* table itself is imported (line 8); the handler relies only on the three
\* entries being distinct numbers.
incomingWebhookErrorCodes ==
    [ unengaged     |-> 131047,
      undeliverable |-> 131026,
      mediaUpload   |-> 131053 ]

\* A code received from the provider that the table does not list.
UnlistedCode == 131000

ErrorCodes ==
    { incomingWebhookErrorCodes.unengaged,
      incomingWebhookErrorCodes.undeliverable,
      incomingWebhookErrorCodes.mediaUpload,
      UnlistedCode }

(***************************************************************************)
(* Payloads (WhatsAppWebhookRequestBody["entry"]).                         *)
(***************************************************************************)
Ids == { ToString(n) : n \in 1..NumIds }

MessageTypes == { "text", "reaction" }

ErrorDatas == { Undefined, Def("details") }

\* The elements that follow the first one of an array.  They are chosen to
\* be as eventful as an element can be: an "unengaged user" error, a status
\* carrying it, an actionable message, a named contact.
ExtraError ==
    [ code |-> incomingWebhookErrorCodes.unengaged, error_data |-> Undefined ]
ExtraStatus == [ recipient_id |-> "1", errors |-> Def(<<ExtraError>>) ]
ExtraMessage == [ type |-> "text", from |-> "1" ]
ExtraContact == [ profile |-> Def([ name |-> Def("Zed") ]) ]
ExtraValue ==
    [ statuses |-> Def(<<ExtraStatus>>),
      messages |-> Def(<<ExtraMessage>>),
      contacts |-> Def(<<ExtraContact>>) ]
ExtraChange == [ value |-> ExtraValue ]
ExtraEntry == [ changes |-> <<ExtraChange>> ]

\* n copies of x.
Repeat(x, n) == [ k \in 1..n |-> x ]

\* The arrays whose first element is drawn from S: that element alone, or
\* that element followed by MaxExtra copies of extra.
ArraysFrom(S, extra) ==
    { <<first>> \o Repeat(extra, n) : first \in S, n \in {0, MaxExtra} }

\* An optional array: absent, empty, or one of ArraysFrom.
OptArraysFrom(S, extra) ==
    { Undefined, Def(<<>>) } \cup { Def(a) : a \in ArraysFrom(S, extra) }

Errors == [ code : ErrorCodes, error_data : ErrorDatas ]

Statuses ==
    [ recipient_id : Ids, errors : OptArraysFrom(Errors, ExtraError) ]

Messages == [ type : MessageTypes, from : Ids ]

Contacts ==
    { [ profile |-> p ] :
        p \in { Undefined, Def([ name |-> Undefined ]),
                Def([ name |-> Def("Ann") ]) } }

Values ==
    [ statuses : OptArraysFrom(Statuses, ExtraStatus),
      messages : OptArraysFrom(Messages, ExtraMessage),
      contacts : OptArraysFrom(Contacts, ExtraContact) ]

Changes == { [ value |-> v ] : v \in Values }

Entries ==
    { [ changes |-> c ] : c \in { <<>> } \cup ArraysFrom(Changes, ExtraChange) }

Payloads == { <<>> } \cup ArraysFrom(Entries, ExtraEntry)

(***************************************************************************)
(* Errors.  WhatsAppError is the class the handler discriminates on        *)
(* (line 51); every other thrown value is a plain Error.  `subject` is the *)
(* value interpolated through JSON.stringify into an Error's message.      *)
(***************************************************************************)
NoError == [ class |-> "none" ]

\* new WhatsAppError(message, details)
WhatsAppError(message, details) ==
    [ class |-> "WhatsAppError", message |-> message, details |-> details ]

\* new Error(`${message}${JSON.stringify(subject)}`)
JsError(message, subject) ==
    [ class |-> "Error", message |-> message, subject |-> subject ]

\* What the collaborators may reject with.  deleteSession is a database
\* query: it rejects with a plain Error.  resumeWhatsAppFlow belongs to the
\* package that defines WhatsAppError: it may reject with either class.
DeleteSessionRejections == { JsError("deleteSession rejected", Undefined) }

ResumeRejections ==
    { JsError("resumeWhatsAppFlow rejected", Undefined),
      WhatsAppError("resumeWhatsAppFlow rejected", Undefined) }

(***************************************************************************)
(* entry.at(0)?.changes.at(0)?.value  (lines 85, 87, 89 and 95)            *)
(***************************************************************************)
FirstValue(entry) ==
    LET e == At0(entry)
    IN  IF ~IsDef(e) THEN Undefined
        ELSE LET c == At0(Val(e).changes)
             IN  IF IsDef(c) THEN Def(Val(c).value) ELSE Undefined

(***************************************************************************)
(* extractMessageData (lines 84-92)                                        *)
(***************************************************************************)
extractMessageData(entry) ==
    LET value == FirstValue(entry)
        receivedMessage ==
            IF IsDef(value) THEN OptAt0(Val(value).messages) ELSE Undefined
        contact ==
            IF IsDef(value) THEN OptAt0(Val(value).contacts) ELSE Undefined
        profile ==
            IF IsDef(contact) THEN Val(contact).profile ELSE Undefined
        name ==
            IF IsDef(profile) THEN Val(profile).name ELSE Undefined
    IN  [ receivedMessage    |-> receivedMessage,
          contactName        |-> IF IsDef(name) THEN Val(name) ELSE "",
          contactPhoneNumber |->
              IF IsDef(receivedMessage) THEN Val(receivedMessage).from ELSE "" ]

(***************************************************************************)
(* processErrors (lines 94-120), up to its only await.  The result says    *)
(* how the function goes on:                                               *)
(*   "return"        it returns normally;                                  *)
(*   "throw"         it throws err;                                        *)
(*   "deleteSession" it calls deleteSession(sessionId), awaits it, and     *)
(*                   throws err once the call has resolved.                *)
(***************************************************************************)
ProcessErrorsStep(kind, sessionId, err) ==
    [ kind |-> kind, sessionId |-> sessionId, err |-> err ]

\* Line 95: entry.at(0)?.changes.at(0)?.value.statuses?.at(0)
FirstStatus(entry) ==
    LET value == FirstValue(entry)
    IN  IF IsDef(value) THEN OptAt0(Val(value).statuses) ELSE Undefined

\* Lines 96-119: the body of processErrors, given the status of line 95.
ErrorPolicy(status) ==
    IF ~IsDef(status) \/ ~IsDef(Val(status).errors)
    THEN ProcessErrorsStep("return", "", NoError)
    ELSE
        LET error == At0(Val(Val(status).errors))
        IN  IF ~IsDef(error)
            THEN ProcessErrorsStep("throw", "",
                     JsError("WA empty errors: ", Def(Val(status))))
            ELSE IF Val(error).code = incomingWebhookErrorCodes.unengaged
            THEN ProcessErrorsStep("deleteSession",
                     PreviewSessionId(Val(status).recipient_id),
                     WhatsAppError("Could not send message to unengaged user",
                                   Undefined))
            ELSE IF Val(error).code = incomingWebhookErrorCodes.undeliverable
            THEN ProcessErrorsStep("throw", "",
                     WhatsAppError("Message undeliverable", Undefined))
            ELSE IF Val(error).code = incomingWebhookErrorCodes.mediaUpload
            THEN ProcessErrorsStep("throw", "",
                     WhatsAppError("Media upload error",
                                   Def([ reason |-> Val(error).error_data ])))
            ELSE ProcessErrorsStep("throw", "",
                     JsError("WA unknown incoming errors: ",
                             Def(Val(Val(status).errors))))

\* Variant: an empty errors array is taken for a status without errors.
processErrors_EmptyIsNoError(entry) ==
    LET status == FirstStatus(entry)
    IN  IF IsDef(status) /\ Val(status).errors = Def(<<>>)
        THEN ProcessErrorsStep("return", "", NoError)
        ELSE ErrorPolicy(status)

\* Variant: the session is cleaned up for "message undeliverable" as well.
processErrors_DeletesOnUndeliverable(entry) ==
    LET status == FirstStatus(entry)
        step == ErrorPolicy(status)
    IN  IF /\ step.kind = "throw"
           /\ step.err.class = "WhatsAppError"
           /\ step.err.message = "Message undeliverable"
        THEN ProcessErrorsStep("deleteSession",
                 PreviewSessionId(Val(status).recipient_id), step.err)
        ELSE step

\* Variant: a code the table does not list is let through instead of thrown.
processErrors_ToleratesUnlisted(entry) ==
    LET step == ErrorPolicy(FirstStatus(entry))
    IN  IF /\ step.kind = "throw"
           /\ step.err.class = "Error"
           /\ step.err.message = "WA unknown incoming errors: "
        THEN ProcessErrorsStep("return", "", NoError)
        ELSE step

\* Variant: the test of line 96 is on the status alone, so that a status
\* without errors field is taken for one with an empty errors list.
processErrors_AnyStatusIsAnError(entry) ==
    LET status == FirstStatus(entry)
    IN  IF IsDef(status) /\ ~IsDef(Val(status).errors)
        THEN ProcessErrorsStep("throw", "",
                 JsError("WA empty errors: ", Def(Val(status))))
        ELSE ErrorPolicy(status)

processErrors(entry) == ErrorPolicy(FirstStatus(entry))

(***************************************************************************)
(* The catch block (lines 50-69).                                          *)
(***************************************************************************)
\* A JavaScript value as far as lines 61-65 look at it: its typeof, its
\* truthiness and its text.
JsValue(type, truthy, text) ==
    [ typeof |-> type, truthy |-> truthy, text |-> text ]

JsUndefined == JsValue("undefined", FALSE, "undefined")
JsString(str) == JsValue("string", str # "", str)

\* The `details` strings parseUnknownError may hand back: none, an empty
\* one, the JSON text of an object, of null, of a number, and text that is
\* not JSON.
ParsedDetails ==
    { Undefined, Def(""), Def("{\"status\":400}"), Def("null"), Def("42"),
      Def("Bad Request") }

\* JSON.parse on those strings: threw is TRUE where it throws a SyntaxError.
JsonParse(str) ==
    CASE str = "{\"status\":400}" ->
            [ threw |-> FALSE, value |-> JsValue("object", TRUE, str) ]
      [] str = "null" ->
            [ threw |-> FALSE, value |-> JsValue("object", FALSE, str) ]
      [] str = "42" ->
            [ threw |-> FALSE, value |-> JsValue("number", TRUE, str) ]
      [] OTHER ->
            [ threw |-> TRUE, value |-> JsUndefined ]

\* safeJsonParse (lines 122-129)
safeJsonParse(value) ==
    IF ~IsDef(value) THEN JsUndefined
    ELSE IF Val(value) = "" THEN JsString(Val(value))
    ELSE IF JsonParse(Val(value)).threw THEN JsString(Val(value))
    ELSE JsonParse(Val(value)).value

\* The data of the breadcrumb (lines 60-65): the details themselves when
\* they are a non-null object, else an object wrapping them.
BreadcrumbData(details) ==
    IF details.typeof = "object" /\ details.truthy
    THEN [ wrapped |-> FALSE, details |-> details ]
    ELSE [ wrapped |-> TRUE, details |-> details ]

\* A call made to a collaborator by invocation inv.
Call(inv, fn, arg) == [ inv |-> inv, fn |-> fn, arg |-> arg ]

\* Variant: a WhatsAppError is reported on both channels.
CatchReports_BothChannels(inv, err, parsed) ==
    IF err.class = "WhatsAppError"
    THEN << Call(inv, "Sentry.captureMessage",
                 [ message |-> err.message, details |-> err.details ]),
            Call(inv, "Sentry.captureException", [ err |-> err ]) >>
    ELSE << Call(inv, "Sentry.addBreadcrumb",
                 [ data |-> BreadcrumbData(safeJsonParse(parsed)) ]),
            Call(inv, "Sentry.captureException", [ err |-> err ]) >>

\* The Sentry calls of the catch block for the caught value err, where
\* parsed is the details string parseUnknownError gave for it.
CatchReports(inv, err, parsed) ==
    IF err.class = "WhatsAppError"
    THEN << Call(inv, "Sentry.captureMessage",
                 [ message |-> err.message, details |-> err.details ]) >>
    ELSE << Call(inv, "Sentry.addBreadcrumb",
                 [ data |-> BreadcrumbData(safeJsonParse(parsed)) ]),
            Call(inv, "Sentry.captureException", [ err |-> err ]) >>

\* Variant: the configuration is never checked.
assertEnv_NeverThrows(envValue) == Undefined

(***************************************************************************)
(* assertEnv (lines 76-82): the TRPCError it throws, if any.               *)
(***************************************************************************)
assertEnv(envValue) ==
    IF ~IsDef(envValue) \/ Val(envValue) = ""
    THEN Def([ class   |-> "TRPCError",
               code    |-> "INTERNAL_SERVER_ERROR",
               message |->
                   "WHATSAPP_PREVIEW_FROM_PHONE_NUMBER_ID is not defined" ])
    ELSE Undefined

\* The two bodies the mutation returns (lines 41 and 71-73).
NoMessageResponse == [ message |-> "No message content found" ]
ReceivedResponse == [ message |-> "Message received" ]

\* Variant: reactions are not filtered out.
IsActionable_KeepsReactions(receivedMessage) == IsDef(receivedMessage)

\* Whether the handler goes on to resumeWhatsAppFlow (line 40).
IsActionable(receivedMessage) ==
    IsDef(receivedMessage) /\ Val(receivedMessage).type # "reaction"

\* Variant: the contact's phone number is passed as its name too.
ResumeArgs_PhoneAsName(data) ==
    [ receivedMessage |-> Val(data.receivedMessage),
      sessionId       |-> PreviewSessionId(Val(data.receivedMessage).from),
      contact         |-> [ name        |-> data.contactPhoneNumber,
                            phoneNumber |-> data.contactPhoneNumber ] ]

\* The argument of resumeWhatsAppFlow (lines 42-49).
ResumeArgs(data) ==
    [ receivedMessage |-> Val(data.receivedMessage),
      sessionId       |-> PreviewSessionId(Val(data.receivedMessage).from),
      contact         |-> [ name        |-> data.contactName,
                            phoneNumber |-> data.contactPhoneNumber ] ]

(***************************************************************************)
(* State.                                                                  *)
(*   env       env.WHATSAPP_PREVIEW_FROM_PHONE_NUMBER_ID                   *)
(*   input     the entry array each invocation was called with             *)
(*   pc        where each invocation stands                                *)
(*   caught    the rejection on its way to the catch block                 *)
(*   response  what the invocation gave its caller                         *)
(*   calls     the calls made to the collaborators so far, in order        *)
(*   settled   how each invocation's awaited collaborator calls ended      *)
(***************************************************************************)
VARIABLES env, input, pc, caught, response, calls, settled

vars == << env, input, pc, caught, response, calls, settled >>

EnvValues == { Undefined, Def("preview-phone-number-id") }

\* Per awaited collaborator: "none" (not called), "pending", "resolved" or
\* "rejected".
NothingAwaited == [ deleteSession |-> "none", resumeWhatsAppFlow |-> "none" ]

Pending == [ kind |-> "pending" ]
Returned(body) == [ kind |-> "returned", body |-> body ]
Thrown(error) == [ kind |-> "thrown", error |-> error ]

\* The state in which the invocations of Inv have been called with the
\* payloads of P and none has run yet.
InitWith(Inv, P) ==
    /\ env \in EnvValues
    /\ input \in [ Inv -> P ]
    /\ pc = [ i \in Inv |-> "start" ]
    /\ caught = [ i \in Inv |-> NoError ]
    /\ response = [ i \in Inv |-> Pending ]
    /\ calls = <<>>
    /\ settled = [ i \in Inv |-> NothingAwaited ]

\* One invocation, any payload.
Init == InitWith({1}, Payloads)

\* Lines 33-37: assertEnv, then processErrors up to its await (or to its
\* end when it has none).
Mutation(i) ==
    /\ pc[i] = "start"
    /\ IF IsDef(assertEnv(env))
       THEN /\ pc' = [pc EXCEPT ![i] = "done"]
            /\ response' = [response EXCEPT ![i] = Thrown(Val(assertEnv(env)))]
            /\ UNCHANGED << caught, calls, settled >>
       ELSE LET step == processErrors(input[i])
            IN  /\ response' = response
                /\ CASE step.kind = "return" ->
                          /\ pc' = [pc EXCEPT ![i] = "extract"]
                          /\ UNCHANGED << caught, calls, settled >>
                     [] step.kind = "throw" ->
                          /\ pc' = [pc EXCEPT ![i] = "catch"]
                          /\ caught' = [caught EXCEPT ![i] = step.err]
                          /\ UNCHANGED << calls, settled >>
                     [] step.kind = "deleteSession" ->
                          /\ pc' = [pc EXCEPT ![i] = "awaitDeleteSession"]
                          /\ calls' = Append(calls,
                                 Call(i, "deleteSession",
                                      [ sessionId |-> step.sessionId ]))
                          /\ settled' = [settled EXCEPT
                                 ![i].deleteSession = "pending"]
                          /\ caught' = caught
    /\ UNCHANGED << env, input >>

\* Variant: a rejection of deleteSession is swallowed and the WhatsAppError
\* thrown all the same.
DeleteSessionSettles_SwallowsRejection(i) ==
    /\ pc[i] = "awaitDeleteSession"
    /\ \E outcome \in { "resolved", "rejected" } :
          settled' = [settled EXCEPT ![i].deleteSession = outcome]
    /\ caught' = [caught EXCEPT ![i] = processErrors(input[i]).err]
    /\ pc' = [pc EXCEPT ![i] = "catch"]
    /\ UNCHANGED << env, input, response, calls >>

\* Variant: the throw after the deletion is missing, so that processErrors
\* returns once deleteSession has resolved.
DeleteSessionSettles_NoThrow(i) ==
    /\ pc[i] = "awaitDeleteSession"
    /\ \/ /\ settled' = [settled EXCEPT ![i].deleteSession = "resolved"]
          /\ pc' = [pc EXCEPT ![i] = "extract"]
          /\ caught' = caught
       \/ /\ settled' = [settled EXCEPT ![i].deleteSession = "rejected"]
          /\ \E err \in DeleteSessionRejections :
                caught' = [caught EXCEPT ![i] = err]
          /\ pc' = [pc EXCEPT ![i] = "catch"]
    /\ UNCHANGED << env, input, response, calls >>

\* Lines 103-106: deleteSession resolves and processErrors throws the
\* WhatsAppError, or deleteSession rejects and processErrors rejects with it.
DeleteSessionSettles(i) ==
    /\ pc[i] = "awaitDeleteSession"
    /\ \/ /\ settled' = [settled EXCEPT ![i].deleteSession = "resolved"]
          /\ caught' = [caught EXCEPT ![i] = processErrors(input[i]).err]
       \/ /\ settled' = [settled EXCEPT ![i].deleteSession = "rejected"]
          /\ \E err \in DeleteSessionRejections :
                caught' = [caught EXCEPT ![i] = err]
    /\ pc' = [pc EXCEPT ![i] = "catch"]
    /\ UNCHANGED << env, input, response, calls >>

\* Variant: a delivery is dropped when another invocation has already called
\* resumeWhatsAppFlow for the same session.
Dispatch_Deduplicates(i) ==
    /\ pc[i] = "extract"
    /\ LET data == extractMessageData(input[i])
           seen(sessionId) ==
               \E k \in 1..Len(calls) :
                   /\ calls[k].fn = "resumeWhatsAppFlow"
                   /\ calls[k].arg.sessionId = sessionId
       IN  IF ~IsActionable(data.receivedMessage)
           THEN /\ response' =
                       [response EXCEPT ![i] = Returned(NoMessageResponse)]
                /\ pc' = [pc EXCEPT ![i] = "done"]
                /\ UNCHANGED << calls, settled >>
           ELSE IF seen(ResumeArgs(data).sessionId)
           THEN /\ response' =
                       [response EXCEPT ![i] = Returned(ReceivedResponse)]
                /\ pc' = [pc EXCEPT ![i] = "done"]
                /\ UNCHANGED << calls, settled >>
           ELSE /\ calls' = Append(calls,
                       Call(i, "resumeWhatsAppFlow", ResumeArgs(data)))
                /\ settled' = [settled EXCEPT
                       ![i].resumeWhatsAppFlow = "pending"]
                /\ pc' = [pc EXCEPT ![i] = "awaitResume"]
                /\ response' = response
    /\ UNCHANGED << env, input, caught >>

\* Lines 38-49: processErrors has returned; extractMessageData, then either
\* the early return or the call of resumeWhatsAppFlow.
Dispatch(i) ==
    /\ pc[i] = "extract"
    /\ LET data == extractMessageData(input[i])
       IN  IF ~IsActionable(data.receivedMessage)
           THEN /\ response' =
                       [response EXCEPT ![i] = Returned(NoMessageResponse)]
                /\ pc' = [pc EXCEPT ![i] = "done"]
                /\ UNCHANGED << calls, settled >>
           ELSE /\ calls' = Append(calls,
                       Call(i, "resumeWhatsAppFlow", ResumeArgs(data)))
                /\ settled' = [settled EXCEPT
                       ![i].resumeWhatsAppFlow = "pending"]
                /\ pc' = [pc EXCEPT ![i] = "awaitResume"]
                /\ response' = response
    /\ UNCHANGED << env, input, caught >>

\* Variant: a rejected resumeWhatsAppFlow is tried a second time.
ResumeSettles_RetriesOnce(i) ==
    /\ pc[i] = "awaitResume"
    /\ \/ /\ settled' = [settled EXCEPT ![i].resumeWhatsAppFlow = "resolved"]
          /\ response' = [response EXCEPT ![i] = Returned(ReceivedResponse)]
          /\ pc' = [pc EXCEPT ![i] = "done"]
          /\ caught' = caught
       \/ /\ settled' = [settled EXCEPT ![i].resumeWhatsAppFlow = "rejected"]
          /\ \E err \in ResumeRejections :
                caught' = [caught EXCEPT ![i] = err]
          /\ pc' = [pc EXCEPT ![i] =
                 IF Len(SelectSeq(calls, LAMBDA c :
                            c.inv = i /\ c.fn = "resumeWhatsAppFlow")) < 2
                 THEN "extract" ELSE "catch"]
          /\ response' = response
    /\ UNCHANGED << env, input, calls >>

\* Variant: a rejected resumeWhatsAppFlow is tried again.
ResumeSettles_Retries(i) ==
    /\ pc[i] = "awaitResume"
    /\ \/ /\ settled' = [settled EXCEPT ![i].resumeWhatsAppFlow = "resolved"]
          /\ response' = [response EXCEPT ![i] = Returned(ReceivedResponse)]
          /\ pc' = [pc EXCEPT ![i] = "done"]
       \/ /\ settled' = [settled EXCEPT ![i].resumeWhatsAppFlow = "rejected"]
          /\ pc' = [pc EXCEPT ![i] = "extract"]
          /\ response' = response
    /\ UNCHANGED << env, input, caught, calls >>

\* Lines 49 and 71-73: resumeWhatsAppFlow resolves and the mutation returns,
\* or it rejects and control passes to the catch block.
ResumeSettles(i) ==
    /\ pc[i] = "awaitResume"
    /\ \/ /\ settled' = [settled EXCEPT ![i].resumeWhatsAppFlow = "resolved"]
          /\ response' = [response EXCEPT ![i] = Returned(ReceivedResponse)]
          /\ pc' = [pc EXCEPT ![i] = "done"]
          /\ caught' = caught
       \/ /\ settled' = [settled EXCEPT ![i].resumeWhatsAppFlow = "rejected"]
          /\ \E err \in ResumeRejections :
                caught' = [caught EXCEPT ![i] = err]
          /\ pc' = [pc EXCEPT ![i] = "catch"]
          /\ response' = response
    /\ UNCHANGED << env, input, calls >>

\* Variant: a caught value that is no WhatsAppError is reported and thrown
\* again.
Catch_Rethrows(i) ==
    /\ pc[i] = "catch"
    /\ \E parsed \in ParsedDetails :
          calls' = calls \o CatchReports(i, caught[i], parsed)
    /\ response' = [response EXCEPT ![i] =
           IF caught[i].class = "WhatsAppError"
           THEN Returned(ReceivedResponse)
           ELSE Thrown(caught[i])]
    /\ pc' = [pc EXCEPT ![i] = "done"]
    /\ UNCHANGED << env, input, caught, settled >>

\* Variant: after a caught failure the body says so.
Catch_AnswersFailure(i) ==
    /\ pc[i] = "catch"
    /\ \E parsed \in ParsedDetails :
          calls' = calls \o CatchReports(i, caught[i], parsed)
    /\ response' = [response EXCEPT ![i] =
           Returned([ message |-> "Message not processed" ])]
    /\ pc' = [pc EXCEPT ![i] = "done"]
    /\ UNCHANGED << env, input, caught, settled >>

\* Lines 50-73: the catch block reports the caught value, and the mutation
\* returns.
Catch(i) ==
    /\ pc[i] = "catch"
    /\ \E parsed \in ParsedDetails :
          calls' = calls \o CatchReports(i, caught[i], parsed)
    /\ response' = [response EXCEPT ![i] = Returned(ReceivedResponse)]
    /\ pc' = [pc EXCEPT ![i] = "done"]
    /\ UNCHANGED << env, input, caught, settled >>

Next ==
    \E i \in DOMAIN pc :
        \/ Mutation(i)
        \/ DeleteSessionSettles(i)
        \/ Dispatch(i)
        \/ ResumeSettles(i)
        \/ Catch(i)

Spec == Init /\ [][Next]_vars

(***************************************************************************)
(* Vocabulary of the properties.  The payload is read here field by field, *)
(* independently of the operators that model the handler.                  *)
(***************************************************************************)
Invocations == DOMAIN pc

ConfigPresent == env # Undefined

Finished(i) == pc[i] = "done"

\* The calls invocation i has made to fn, in order.
CallsOf(i, fn) == SelectSeq(calls, LAMBDA c : c.inv = i /\ c.fn = fn)
Count(i, fn) == Len(CallsOf(i, fn))

\* The reports of invocation i on the classified channel
\* (Sentry.captureMessage) and on the unclassified one
\* (Sentry.captureException).
Classified(i) == CallsOf(i, "Sentry.captureMessage")
Unclassified(i) == CallsOf(i, "Sentry.captureException")
Reports(i) == Len(Classified(i)) + Len(Unclassified(i))

HasFirstChange(p) == Len(p) > 0 /\ Len(p[1].changes) > 0
ValueOf(p) == p[1].changes[1].value

HasFirstStatus(p) ==
    /\ HasFirstChange(p)
    /\ ValueOf(p).statuses # Undefined
    /\ Len(ValueOf(p).statuses[1]) > 0
StatusOf(p) == ValueOf(p).statuses[1][1]

\* The first status carries an errors field (an array, possibly empty).
HasErrorsField(p) == HasFirstStatus(p) /\ StatusOf(p).errors # Undefined
ErrorsOf(p) == StatusOf(p).errors[1]
HasFirstError(p) == HasErrorsField(p) /\ Len(ErrorsOf(p)) > 0
FirstErrorIs(p, code) == HasFirstError(p) /\ ErrorsOf(p)[1].code = code

HasFirstMessage(p) ==
    /\ HasFirstChange(p)
    /\ ValueOf(p).messages # Undefined
    /\ Len(ValueOf(p).messages[1]) > 0
MessageOf(p) == ValueOf(p).messages[1][1]
HasActionableMessage(p) ==
    HasFirstMessage(p) /\ MessageOf(p).type # "reaction"

\* The profile name of the first contact, "" when there is none.
ProfileNameOf(p) ==
    IF /\ HasFirstChange(p)
       /\ ValueOf(p).contacts # Undefined
       /\ Len(ValueOf(p).contacts[1]) > 0
       /\ ValueOf(p).contacts[1][1].profile # Undefined
       /\ ValueOf(p).contacts[1][1].profile[1].name # Undefined
    THEN ValueOf(p).contacts[1][1].profile[1].name[1]
    ELSE ""

UnengagedKind == "Could not send message to unengaged user"

(***************************************************************************)
(* Properties.                                                             *)
(***************************************************************************)

\* C1: with the configuration value present, no invocation ever throws to
\* its caller, whatever the payload and however deleteSession and
\* resumeWhatsAppFlow settle: a finished invocation has returned an object
\* whose only field is a string `message`, and an unfinished one has given
\* its caller nothing yet.
C1_AlwaysAcknowledges ==
    \A i \in Invocations :
        ConfigPresent =>
            /\ response[i].kind # "thrown"
            /\ Finished(i) =>
                  /\ response[i].kind = "returned"
                  /\ DOMAIN response[i].body = { "message" }
                  /\ response[i].body.message \in STRING
            /\ ~Finished(i) => response[i] = Pending

\* A finished invocation one of whose collaborator calls (deleteSession or
\* resumeWhatsAppFlow) rejected with a plain Error.
C1_Witness ==
    \E i \in Invocations :
        /\ ConfigPresent /\ Finished(i)
        /\ \/ settled[i].deleteSession = "rejected"
           \/ settled[i].resumeWhatsAppFlow = "rejected"
        /\ caught[i].class = "Error"

\* C2: when the first message of the first change is not a reaction and the
\* first status is absent or has no errors field, the invocation calls
\* resumeWhatsAppFlow exactly once, with sessionId "wa-preview-" +
\* message.from, contact.phoneNumber = message.from and contact.name = the
\* first contact's profile name ("" when absent); it never calls
\* deleteSession; and it returns {message: "Message received"}.
C2_ResumesOnce ==
    \A i \in Invocations :
        ( /\ ConfigPresent
          /\ HasActionableMessage(input[i])
          /\ ~HasErrorsField(input[i]) ) =>
            /\ Count(i, "deleteSession") = 0
            /\ Count(i, "resumeWhatsAppFlow") <= 1
            /\ pc[i] \in { "awaitResume", "catch", "done" } =>
                  /\ Count(i, "resumeWhatsAppFlow") = 1
                  /\ LET arg == CallsOf(i, "resumeWhatsAppFlow")[1].arg
                         msg == MessageOf(input[i])
                     IN  /\ arg.receivedMessage = msg
                         /\ arg.sessionId = "wa-preview-" \o msg.from
                         /\ arg.contact.phoneNumber = msg.from
                         /\ arg.contact.name = ProfileNameOf(input[i])
            /\ Finished(i) =>
                  response[i] = Returned([ message |-> "Message received" ])

\* A finished resumption whose contact has a profile name different from
\* the sender's number, next to a delivery status without errors.
C2_Witness ==
    \E i \in Invocations :
        /\ ConfigPresent /\ Finished(i)
        /\ HasActionableMessage(input[i])
        /\ HasFirstStatus(input[i]) /\ ~HasErrorsField(input[i])
        /\ ProfileNameOf(input[i]) = "Ann"
        /\ Count(i, "resumeWhatsAppFlow") = 1

\* What C3 promises of an invocation with configuration present: exactly
\* one deleteSession call, for "wa-preview-" + recipient_id, made as soon as
\* the invocation has started, and no resumeWhatsAppFlow call.
DeletesAndNeverResumes(i) ==
    /\ Count(i, "resumeWhatsAppFlow") = 0
    /\ Count(i, "deleteSession") <= 1
    /\ pc[i] # "start" =>
          /\ Count(i, "deleteSession") = 1
          /\ CallsOf(i, "deleteSession")[1].arg.sessionId =
                 "wa-preview-" \o StatusOf(input[i]).recipient_id

\* C3 as stated: the errors list of the first status contains the
\* "unengaged user" code, at any position.
C3_AsStated ==
    \A i \in Invocations :
        ( /\ ConfigPresent
          /\ HasFirstError(input[i])
          /\ \E k \in 1..Len(ErrorsOf(input[i])) :
                ErrorsOf(input[i])[k].code =
                    incomingWebhookErrorCodes.unengaged ) =>
            DeletesAndNeverResumes(i)

\* C3, amended: when the FIRST error of the first status has the "unengaged
\* user" code, deleteSession is called exactly once with "wa-preview-" +
\* status.recipient_id and resumeWhatsAppFlow is never called, also when
\* the payload carries an actionable message.
C3_FirstErrorUnengaged ==
    \A i \in Invocations :
        ( /\ ConfigPresent
          /\ FirstErrorIs(input[i], incomingWebhookErrorCodes.unengaged) ) =>
            DeletesAndNeverResumes(i)

\* A finished "unengaged user" invocation whose payload also carried an
\* actionable message from another number than the status's recipient.
C3_Witness ==
    \E i \in Invocations :
        /\ ConfigPresent /\ Finished(i)
        /\ FirstErrorIs(input[i], incomingWebhookErrorCodes.unengaged)
        /\ HasActionableMessage(input[i])
        /\ MessageOf(input[i]).from # StatusOf(input[i]).recipient_id
        /\ Count(i, "deleteSession") = 1

\* messages is absent, or the first message is a reaction.
NoMessageOrReaction(p) ==
    \/ ~HasFirstChange(p)
    \/ ValueOf(p).messages = Undefined
    \/ HasFirstMessage(p) /\ MessageOf(p).type = "reaction"

\* C4 as stated: whatever the statuses field carries, a payload without
\* messages or with a reaction as first message is answered
\* {message: "No message content found"}.
C4_AsStated ==
    \A i \in Invocations :
        ( /\ ConfigPresent /\ Finished(i)
          /\ NoMessageOrReaction(input[i]) ) =>
            response[i] = Returned([ message |-> "No message content found" ])

\* C4, amended: a payload without messages or with a reaction as first
\* message, whose first status is absent or has no errors field, is
\* answered {message: "No message content found"}.
C4_NoContentWithoutStatusErrors ==
    \A i \in Invocations :
        ( /\ ConfigPresent /\ Finished(i)
          /\ NoMessageOrReaction(input[i])
          /\ ~HasErrorsField(input[i]) ) =>
            response[i] = Returned([ message |-> "No message content found" ])

\* A finished invocation whose first message was a reaction, next to a
\* delivery status without errors.
C4_Witness ==
    \E i \in Invocations :
        /\ ConfigPresent /\ Finished(i)
        /\ HasFirstMessage(input[i]) /\ MessageOf(input[i]).type = "reaction"
        /\ HasFirstStatus(input[i]) /\ ~HasErrorsField(input[i])

\* C5: once resumeWhatsAppFlow has rejected, the invocation makes no second
\* call of it, reports nothing before its catch block has run, and finishes
\* with {message: "Message received"} and exactly one report, which is the
\* report of that rejection.
C5_ResumeFailureSwallowed ==
    \A i \in Invocations :
        settled[i].resumeWhatsAppFlow = "rejected" =>
            /\ Count(i, "resumeWhatsAppFlow") = 1
            /\ caught[i] \in ResumeRejections
            /\ ~Finished(i) => Reports(i) = 0
            /\ Finished(i) =>
                  /\ response[i] = Returned([ message |-> "Message received" ])
                  /\ Reports(i) = 1
                  /\ caught[i].class = "Error" =>
                        /\ Len(Unclassified(i)) = 1
                        /\ Unclassified(i)[1].arg.err = caught[i]
                  /\ caught[i].class = "WhatsAppError" =>
                        /\ Len(Classified(i)) = 1
                        /\ Classified(i)[1].arg.message = caught[i].message

\* A finished invocation whose resumeWhatsAppFlow call rejected with a
\* WhatsAppError.
C5_Witness ==
    \E i \in Invocations :
        /\ Finished(i)
        /\ settled[i].resumeWhatsAppFlow = "rejected"
        /\ caught[i].class = "WhatsAppError"

\* All the calls invocation i has made, to any collaborator.
AllCallsOf(i) == SelectSeq(calls, LAMBDA c : c.inv = i)

\* C6: with the configuration value missing, an invocation makes no call at
\* all (deleteSession, resumeWhatsAppFlow, Sentry), awaits nothing, catches
\* nothing, never returns an acknowledgment, and ends by throwing the
\* INTERNAL_SERVER_ERROR of assertEnv, whatever the payload.
C6_MissingConfigFailsFast ==
    \A i \in Invocations :
        ~ConfigPresent =>
            /\ AllCallsOf(i) = <<>>
            /\ settled[i] = NothingAwaited
            /\ caught[i] = NoError
            /\ response[i].kind # "returned"
            /\ pc[i] \in { "start", "done" }
            /\ Finished(i) =>
                  /\ response[i].kind = "thrown"
                  /\ response[i].error.class = "TRPCError"
                  /\ response[i].error.code = "INTERNAL_SERVER_ERROR"

\* A finished invocation without configuration whose payload carried both
\* an "unengaged user" error and an actionable message.
C6_Witness ==
    \E i \in Invocations :
        /\ ~ConfigPresent /\ Finished(i)
        /\ FirstErrorIs(input[i], incomingWebhookErrorCodes.unengaged)
        /\ HasActionableMessage(input[i])

\* The first status has an errors field holding an empty array.
HasEmptyErrors(p) == HasErrorsField(p) /\ Len(ErrorsOf(p)) = 0

\* C7: when the errors list of the first status is present but empty, the
\* invocation calls neither deleteSession nor resumeWhatsAppFlow, reports
\* nothing on the classified channel, and finishes by returning
\* {message: "Message received"} after exactly one unclassified report, of
\* the "WA empty errors" Error carrying that status.
C7_EmptyErrorsReported ==
    \A i \in Invocations :
        ( ConfigPresent /\ HasEmptyErrors(input[i]) ) =>
            /\ Count(i, "deleteSession") = 0
            /\ Count(i, "resumeWhatsAppFlow") = 0
            /\ Len(Classified(i)) = 0
            /\ ~Finished(i) => Len(Unclassified(i)) = 0
            /\ Finished(i) =>
                  /\ Len(Unclassified(i)) = 1
                  /\ Unclassified(i)[1].arg.err.class = "Error"
                  /\ Unclassified(i)[1].arg.err.message = "WA empty errors: "
                  /\ Unclassified(i)[1].arg.err.subject =
                         << StatusOf(input[i]) >>
                  /\ response[i] = Returned([ message |-> "Message received" ])

\* A finished invocation whose first status had an empty errors list, next
\* to an actionable message.
C7_Witness ==
    \E i \in Invocations :
        /\ ConfigPresent /\ Finished(i)
        /\ HasEmptyErrors(input[i])
        /\ HasActionableMessage(input[i])

\* Invocation i has the "unengaged user" WhatsAppError in flight or reported.
UnengagedRaised(i) ==
    \/ caught[i].class = "WhatsAppError" /\ caught[i].message = UnengagedKind
    \/ \E k \in 1..Len(Classified(i)) :
          Classified(i)[k].arg.message = UnengagedKind

\* C8: in an invocation whose first error is "unengaged user", the
\* classified error is raised or reported only once deleteSession has
\* resolved; while the call is pending nothing is raised or reported; and if
\* it rejected, the rejection is what is caught and then reported, once, on
\* the unclassified channel, and nothing is reported on the classified one.
C8_DeletionBeforeClassifiedError ==
    \A i \in Invocations :
        ( /\ ConfigPresent
          /\ FirstErrorIs(input[i], incomingWebhookErrorCodes.unengaged) ) =>
            /\ UnengagedRaised(i) => settled[i].deleteSession = "resolved"
            /\ settled[i].deleteSession = "pending" =>
                  caught[i] = NoError /\ Reports(i) = 0
            /\ settled[i].deleteSession = "rejected" =>
                  /\ caught[i] \in DeleteSessionRejections
                  /\ Len(Classified(i)) = 0
                  /\ Finished(i) =>
                        /\ Len(Unclassified(i)) = 1
                        /\ Unclassified(i)[1].arg.err = caught[i]
            /\ ( Finished(i) /\ settled[i].deleteSession = "resolved" ) =>
                  /\ Len(Classified(i)) = 1
                  /\ Classified(i)[1].arg.message = UnengagedKind

\* A finished "unengaged user" invocation whose deleteSession call rejected
\* and was reported on the unclassified channel.
C8_Witness ==
    \E i \in Invocations :
        /\ ConfigPresent /\ Finished(i)
        /\ FirstErrorIs(input[i], incomingWebhookErrorCodes.unengaged)
        /\ settled[i].deleteSession = "rejected"
        /\ Len(Unclassified(i)) = 1

(***************************************************************************)
(* The outcomes of an invocation.                                          *)
(***************************************************************************)
FlowResumption(i) == Count(i, "resumeWhatsAppFlow") > 0
SessionDeletion(i) == Count(i, "deleteSession") > 0
ClassifiedError(i) == Len(Classified(i)) > 0
UnclassifiedError(i) == Len(Unclassified(i)) > 0
\* The silent no-op: the early return of line 41, with no call made.
SilentNoOp(i) ==
    /\ response[i] = Returned([ message |-> "No message content found" ])
    /\ AllCallsOf(i) = <<>>

\* The number of the given outcomes that hold.
HowMany(outcomes) == Cardinality({ k \in DOMAIN outcomes : outcomes[k] })

\* C9 as stated: a finished invocation with configuration present shows
\* exactly one of flow resumption, session deletion, classified error and
\* silent no-op.
C9_AsStated ==
    \A i \in Invocations :
        ( ConfigPresent /\ Finished(i) ) =>
            HowMany(<< FlowResumption(i), SessionDeletion(i),
                       ClassifiedError(i), SilentNoOp(i) >>) = 1

\* C9, amended: a finished invocation with configuration present shows at
\* least one of the five outcomes flow resumption, session deletion,
\* classified error report, unclassified error report and silent no-op.
\* Flow resumption and session deletion never occur together, nor do a
\* classified and an unclassified report, and the silent no-op occurs with
\* none of the others.  A session deletion always comes with one error
\* report (classified when deleteSession resolved, unclassified when it
\* rejected); a flow resumption comes with one exactly when
\* resumeWhatsAppFlow rejected; without either, an error report stands alone.
C9_OutcomesOfAnInvocation ==
    \A i \in Invocations :
        ( ConfigPresent /\ Finished(i) ) =>
            /\ HowMany(<< FlowResumption(i), SessionDeletion(i),
                          ClassifiedError(i), UnclassifiedError(i),
                          SilentNoOp(i) >>) >= 1
            /\ ~( FlowResumption(i) /\ SessionDeletion(i) )
            /\ ~( ClassifiedError(i) /\ UnclassifiedError(i) )
            /\ SilentNoOp(i) =>
                  HowMany(<< FlowResumption(i), SessionDeletion(i),
                             ClassifiedError(i), UnclassifiedError(i) >>) = 0
            /\ SessionDeletion(i) =>
                  /\ ClassifiedError(i) <=> settled[i].deleteSession = "resolved"
                  /\ UnclassifiedError(i) <=> settled[i].deleteSession = "rejected"
            /\ FlowResumption(i) =>
                  ( ClassifiedError(i) \/ UnclassifiedError(i) )
                      <=> settled[i].resumeWhatsAppFlow = "rejected"

\* A finished invocation showing two outcomes at once, a session deletion
\* and its classified report, for a payload that also carried an actionable
\* message.
C9_Witness ==
    \E i \in Invocations :
        /\ ConfigPresent /\ Finished(i)
        /\ SessionDeletion(i) /\ ClassifiedError(i)
        /\ HasActionableMessage(input[i])

\* The three kinds of classified error, by the code of the table.
KindOfCode(code) ==
    CASE code = incomingWebhookErrorCodes.unengaged -> UnengagedKind
      [] code = incomingWebhookErrorCodes.undeliverable ->
            "Message undeliverable"
      [] code = incomingWebhookErrorCodes.mediaUpload -> "Media upload error"
      [] OTHER -> ""

ListedCodes ==
    { incomingWebhookErrorCodes.unengaged,
      incomingWebhookErrorCodes.undeliverable,
      incomingWebhookErrorCodes.mediaUpload }

\* C10: nothing is reported before an invocation finishes.  A finished
\* invocation that caught nothing has made no Sentry call; one that caught
\* a failure has made exactly one report, on one channel.  When the first
\* error of the first status is "unengaged user" (and deleteSession
\* resolved), "message undeliverable" or "media upload error", that report
\* is on the classified channel with that kind (media upload error with
\* details {reason: error_data}, the others without details); when the
\* errors list is empty or its first code is any other, it is on the
\* unclassified channel.
C10_OneReportOnOneChannel ==
    \A i \in Invocations :
        ConfigPresent =>
            /\ ~Finished(i) =>
                  Reports(i) = 0 /\ Count(i, "Sentry.addBreadcrumb") = 0
            /\ ( Finished(i) /\ caught[i] = NoError ) =>
                  Reports(i) = 0 /\ Count(i, "Sentry.addBreadcrumb") = 0
            /\ ( Finished(i) /\ caught[i] # NoError ) =>
                  /\ Reports(i) = 1
                  /\ Count(i, "Sentry.addBreadcrumb") = Len(Unclassified(i))
            /\ ( /\ Finished(i)
                 /\ HasFirstError(input[i])
                 /\ ErrorsOf(input[i])[1].code \in ListedCodes
                 /\ settled[i].deleteSession # "rejected" ) =>
                  /\ Len(Unclassified(i)) = 0
                  /\ Len(Classified(i)) = 1
                  /\ Classified(i)[1].arg.message =
                         KindOfCode(ErrorsOf(input[i])[1].code)
                  /\ Classified(i)[1].arg.details =
                         IF ErrorsOf(input[i])[1].code =
                                incomingWebhookErrorCodes.mediaUpload
                         THEN << [ reason |->
                                     ErrorsOf(input[i])[1].error_data ] >>
                         ELSE <<>>
            /\ ( /\ Finished(i)
                 /\ \/ HasEmptyErrors(input[i])
                    \/ /\ HasFirstError(input[i])
                       /\ ErrorsOf(input[i])[1].code \notin ListedCodes ) =>
                  /\ Len(Classified(i)) = 0
                  /\ Len(Unclassified(i)) = 1
                  /\ Unclassified(i)[1].arg.err = caught[i]
                  /\ caught[i].class = "Error"

\* A finished invocation that reported a media upload error carrying the
\* provider's error_data.
C10_Witness ==
    \E i \in Invocations :
        /\ ConfigPresent /\ Finished(i)
        /\ FirstErrorIs(input[i], incomingWebhookErrorCodes.mediaUpload)
        /\ ErrorsOf(input[i])[1].error_data # Undefined
        /\ Len(Classified(i)) = 1

\* C11: deleteSession is called only by an invocation with configuration
\* present whose first status has "unengaged user" as the code of its first
\* error: with "message undeliverable", "media upload error", an unlisted
\* code, an empty errors list, a status without errors or no status at all,
\* the invocation never calls deleteSession and never awaits it.
C11_DeletionOnlyForUnengaged ==
    \A i \in Invocations :
        ~( /\ ConfigPresent
           /\ FirstErrorIs(input[i], incomingWebhookErrorCodes.unengaged) ) =>
            /\ Count(i, "deleteSession") = 0
            /\ settled[i].deleteSession = "none"
            /\ pc[i] # "awaitDeleteSession"

\* A finished invocation whose first error was "message undeliverable",
\* reported as such, while "unengaged user" stood second in the list.
C11_Witness ==
    \E i \in Invocations :
        /\ ConfigPresent /\ Finished(i)
        /\ FirstErrorIs(input[i], incomingWebhookErrorCodes.undeliverable)
        /\ Len(ErrorsOf(input[i])) > 1
        /\ ErrorsOf(input[i])[2].code = incomingWebhookErrorCodes.unengaged
        /\ Len(Classified(i)) = 1
        /\ Count(i, "deleteSession") = 0

\* C14: an invocation calls resumeWhatsAppFlow at most once, and only with
\* configuration present, a first status that is absent or has no errors
\* field, and a first message of a type other than "reaction".  So a payload
\* whose first change carries a status with an errors list (empty or not)
\* next to an actionable message never leads to a call.
C14_ResumeAtMostOnceAndOnlyWhenClean ==
    \A i \in Invocations :
        /\ Count(i, "resumeWhatsAppFlow") <= 1
        /\ settled[i].resumeWhatsAppFlow # "none" =>
              Count(i, "resumeWhatsAppFlow") = 1
        /\ Count(i, "resumeWhatsAppFlow") > 0 =>
              /\ ConfigPresent
              /\ ~HasErrorsField(input[i])
              /\ HasActionableMessage(input[i])

\* A finished invocation whose payload carried an actionable message next
\* to a status whose first error had an unlisted code: the error was
\* reported and the flow not resumed.
C14_Witness ==
    \E i \in Invocations :
        /\ ConfigPresent /\ Finished(i)
        /\ FirstErrorIs(input[i], UnlistedCode)
        /\ HasActionableMessage(input[i])
        /\ Len(Unclassified(i)) = 1
        /\ Count(i, "resumeWhatsAppFlow") = 0

(***************************************************************************)
(* Two invocations side by side.  Properties that compare two invocations  *)
(* (same response? same calls?) are checked on a pair of invocations, each *)
(* called with one of PairPayloads: a single entry with a single change,   *)
(* whose first status, message and contact range over every case the       *)
(* handler tells apart, and whose arrays either all end after their first  *)
(* element or all go on with MaxExtra further elements.                    *)
(***************************************************************************)
\* An identifier no further element carries.
LastId == ToString(NumIds)

WithExtras(first, extra, more) ==
    IF more THEN <<first>> \o Repeat(extra, MaxExtra) ELSE <<first>>

PairErrors(more) ==
    { Undefined, Def(<<>>) } \cup
    { Def(WithExtras([ code |-> c, error_data |-> Def("details") ],
                     ExtraError, more)) : c \in ErrorCodes }

PairStatuses(more) ==
    { Undefined } \cup
    { Def(WithExtras([ recipient_id |-> LastId, errors |-> e ],
                     ExtraStatus, more)) : e \in PairErrors(more) }

PairMessages(more) ==
    { Undefined } \cup
    { Def(WithExtras([ type |-> t, from |-> LastId ], ExtraMessage, more)) :
        t \in MessageTypes }

PairContacts(more) ==
    { Undefined,
      Def(WithExtras([ profile |-> Def([ name |-> Def("Ann") ]) ],
                     ExtraContact, more)) }

PairPayloadsWith(more) ==
    { WithExtras([ changes |-> WithExtras([ value |-> v ], ExtraChange, more) ],
                 ExtraEntry, more) :
        v \in [ statuses : PairStatuses(more),
                messages : PairMessages(more),
                contacts : PairContacts(more) ] }

PairPayloads == PairPayloadsWith(FALSE) \cup PairPayloadsWith(TRUE)

InitPair == InitWith({1, 2}, PairPayloads)

SpecPair == InitPair /\ [][Next]_vars

\* C12 as stated: any two finished invocations with configuration present
\* have given the same response body, whatever their outcomes.
C12_AsStated ==
    \A i, j \in Invocations :
        ( ConfigPresent /\ Finished(i) /\ Finished(j) ) =>
            response[i] = response[j]

\* The payload leads to the "no actionable message" outcome: no errors
\* field in the first status, and no first message or a reaction.
NothingToDo(p) == ~HasErrorsField(p) /\ ~HasActionableMessage(p)

\* C12, amended: any two finished invocations with configuration present
\* have both returned a success body, and the two bodies are identical
\* unless exactly one of the invocations had no actionable message: the
\* outcomes flow resumed, resumption failed, session deleted, classified
\* error and unclassified error all answer {message: "Message received"},
\* and only "no actionable message" answers
\* {message: "No message content found"}, having made no call at all.
C12_ResponseHidesAllButNoContent ==
    \A i, j \in Invocations :
        ( ConfigPresent /\ Finished(i) /\ Finished(j) ) =>
            /\ response[i].kind = "returned"
            /\ NothingToDo(input[i]) = NothingToDo(input[j]) =>
                  response[i] = response[j]
            /\ ~NothingToDo(input[i]) =>
                  response[i].body = [ message |-> "Message received" ]
            /\ NothingToDo(input[i]) =>
                  /\ response[i].body =
                         [ message |-> "No message content found" ]
                  /\ AllCallsOf(i) = <<>>

\* Two finished invocations with the same response, one after a rejected
\* session deletion reported as an unclassified error, the other after a
\* flow resumption that resolved.
C12_Witness ==
    \E i, j \in Invocations :
        /\ ConfigPresent /\ Finished(i) /\ Finished(j)
        /\ settled[i].deleteSession = "rejected"
        /\ UnclassifiedError(i)
        /\ settled[j].resumeWhatsAppFlow = "resolved"
        /\ response[i] = response[j]

(***************************************************************************)
(* Concurrent deliveries for one session.  NumDeliveries webhook calls run *)
(* interleaved; each carries either a text message from LastId or an       *)
(* "unengaged user" status for LastId.                                     *)
(***************************************************************************)
NumDeliveries == 2

MessageDelivery(id) ==
    << [ changes |-> <<
           [ value |->
               [ statuses |-> Undefined,
                 messages |-> Def(<< [ type |-> "text", from |-> id ] >>),
                 contacts |->
                     Def(<< [ profile |-> Def([ name |-> Def("Ann") ]) ] >>)
               ] ] >> ] >>

UnengagedDelivery(id) ==
    << [ changes |-> <<
           [ value |->
               [ statuses |->
                     Def(<< [ recipient_id |-> id,
                              errors |-> Def(<<
                                  [ code |->
                                        incomingWebhookErrorCodes.unengaged,
                                    error_data |-> Undefined ] >>) ] >>),
                 messages |-> Undefined,
                 contacts |-> Undefined ] ] >> ] >>

DeliveryPayloads == { MessageDelivery(LastId), UnengagedDelivery(LastId) }

InitDeliveries == InitWith(1..NumDeliveries, DeliveryPayloads)

SpecDeliveries == InitDeliveries /\ [][Next]_vars

\* The calls of fn made so far for the session of id, by any invocation.
CallsForSession(fn, id) ==
    SelectSeq(calls, LAMBDA c :
        c.fn = fn /\ c.arg.sessionId = "wa-preview-" \o id)

\* The invocations delivering the message from id that have got as far as
\* calling resumeWhatsAppFlow or beyond.
Delivered(id) ==
    { i \in Invocations :
        /\ input[i] = MessageDelivery(id)
        /\ pc[i] \in { "awaitResume", "catch", "done" } }

\* C13: with configuration present, deliveries of the same message from the
\* same sender are neither deduplicated nor retried: each of them calls
\* resumeWhatsAppFlow exactly once, so that the calls for the sender's
\* session number as many as the deliveries that got that far, all of them
\* once every delivery has finished, whether earlier calls are pending,
\* resolved or rejected.  Nor is any invocation made to wait for another:
\* whatever the other invocations are doing, an invocation that has not
\* started can start (and call deleteSession), and one that has passed
\* processErrors can go on (and call resumeWhatsAppFlow), so that the two
\* calls for one session can be made in either order.
C13_NoDeduplicationNoOrdering ==
    /\ ConfigPresent =>
          /\ \A i \in Delivered(LastId) : Count(i, "resumeWhatsAppFlow") = 1
          /\ Len(CallsForSession("resumeWhatsAppFlow", LastId)) =
                 Cardinality(Delivered(LastId))
          /\ \A k \in 1..Len(calls) :
                calls[k].fn = "resumeWhatsAppFlow" =>
                    calls[k].arg.sessionId = "wa-preview-" \o LastId
    /\ \A i \in Invocations :
          /\ pc[i] = "start" => ENABLED Mutation(i)
          /\ pc[i] = "extract" => ENABLED Dispatch(i)

\* Two finished deliveries of the same message, the first of which was
\* rejected by resumeWhatsAppFlow: two calls for the one session.
C13_Witness ==
    \E i, j \in Invocations :
        /\ i # j /\ ConfigPresent /\ Finished(i) /\ Finished(j)
        /\ input[i] = MessageDelivery(LastId)
        /\ input[j] = MessageDelivery(LastId)
        /\ settled[i].resumeWhatsAppFlow = "rejected"
        /\ Len(CallsForSession("resumeWhatsAppFlow", LastId)) = 2

\* The two orders of the calls for one session: deleteSession logged before
\* resumeWhatsAppFlow, and resumeWhatsAppFlow before deleteSession.
DeletionThenResumption ==
    \E k, l \in 1..Len(calls) :
        /\ k < l
        /\ calls[k].fn = "deleteSession"
        /\ calls[l].fn = "resumeWhatsAppFlow"
        /\ calls[k].arg.sessionId = calls[l].arg.sessionId

ResumptionThenDeletion ==
    \E k, l \in 1..Len(calls) :
        /\ k < l
        /\ calls[k].fn = "resumeWhatsAppFlow"
        /\ calls[l].fn = "deleteSession"
        /\ calls[k].arg.sessionId = calls[l].arg.sessionId

\* What the payload holds in first position: the first status with its
\* recipient and its first error, the first message, the first contact.
FirstsOf(p) ==
    [ status  |-> IF HasFirstStatus(p)
                  THEN << [ recipient_id |-> StatusOf(p).recipient_id,
                            errors |->
                                IF ~HasErrorsField(p) THEN <<>>
                                ELSE IF HasFirstError(p)
                                THEN << << ErrorsOf(p)[1] >> >>
                                ELSE << <<>> >> ] >>
                  ELSE <<>>,
      message |-> IF HasFirstMessage(p) THEN << MessageOf(p) >> ELSE <<>>,
      contact |-> IF /\ HasFirstChange(p)
                     /\ ValueOf(p).contacts # Undefined
                     /\ Len(ValueOf(p).contacts[1]) > 0
                  THEN << ValueOf(p).contacts[1][1] >>
                  ELSE <<>> ]

\* The calls of invocation i, in order, without the invocation's name.
TraceOf(i) ==
    LET mine == AllCallsOf(i)
    IN  [ k \in 1..Len(mine) |-> [ fn |-> mine[k].fn, arg |-> mine[k].arg ] ]

\* The same, with the Error given to Sentry.captureException reduced to its
\* message text, without the value interpolated into it.
BlurredTraceOf(i) ==
    LET mine == AllCallsOf(i)
    IN  [ k \in 1..Len(mine) |->
            IF mine[k].fn = "Sentry.captureException"
            THEN [ fn |-> mine[k].fn,
                   arg |-> [ class   |-> mine[k].arg.err.class,
                             message |-> mine[k].arg.err.message ] ]
            ELSE [ fn |-> mine[k].fn, arg |-> mine[k].arg ] ]

\* The collaborators behaved alike towards i and j: the awaited calls
\* settled the same way, with the same rejection, and parseUnknownError
\* gave the same details.
SameCollaborators(i, j) ==
    /\ settled[i] = settled[j]
    /\ ( \/ settled[i].deleteSession = "rejected"
         \/ settled[i].resumeWhatsAppFlow = "rejected" ) =>
            caught[i] = caught[j]
    /\ ( /\ Count(i, "Sentry.addBreadcrumb") > 0
         /\ Count(j, "Sentry.addBreadcrumb") > 0 ) =>
            CallsOf(i, "Sentry.addBreadcrumb")[1].arg =
                CallsOf(j, "Sentry.addBreadcrumb")[1].arg

\* Two finished invocations, configuration present, whose payloads agree in
\* first position and whose collaborators behaved alike.
AlikeInFirsts(i, j) ==
    /\ i # j
    /\ ConfigPresent /\ Finished(i) /\ Finished(j)
    /\ FirstsOf(input[i]) = FirstsOf(input[j])
    /\ SameCollaborators(i, j)

\* C15 as stated: two payloads that agree in first position lead to the
\* same calls with the same arguments and to the same response.
C15_AsStated ==
    \A i, j \in Invocations :
        AlikeInFirsts(i, j) =>
            TraceOf(i) = TraceOf(j) /\ response[i] = response[j]

\* C15, amended: two payloads that agree in first position lead to the same
\* response and to the same calls of the same collaborators in the same
\* order, with the same arguments except for one: when the code of the
\* first error is none of the three listed, the Error reported on the
\* unclassified channel carries the whole errors list of the first status,
\* later errors included.  In every other case the arguments are the same.
C15_OnlyFirstsDecide ==
    \A i, j \in Invocations :
        AlikeInFirsts(i, j) =>
            /\ response[i] = response[j]
            /\ BlurredTraceOf(i) = BlurredTraceOf(j)
            /\ ~( /\ HasFirstError(input[i])
                  /\ ErrorsOf(input[i])[1].code \notin ListedCodes ) =>
                  TraceOf(i) = TraceOf(j)

\* Two finished invocations whose payloads agree in first position, a
\* "message undeliverable" error and a reaction, while the second goes on
\* with an "unengaged user" error and an actionable message: neither
\* deleted the session nor resumed the flow.
C15_Witness ==
    \E i, j \in Invocations :
        /\ AlikeInFirsts(i, j)
        /\ FirstErrorIs(input[i], incomingWebhookErrorCodes.undeliverable)
        /\ HasFirstMessage(input[i]) /\ MessageOf(input[i]).type = "reaction"
        /\ Len(ErrorsOf(input[i])) = 1
        /\ Len(ErrorsOf(input[j])) > 1
        /\ Len(ValueOf(input[j]).messages[1]) > 1
        /\ TraceOf(i) = TraceOf(j)
        /\ Count(j, "deleteSession") = 0
        /\ Count(j, "resumeWhatsAppFlow") = 0

\* The first status is an ordinary delivery status: present, without an
\* errors field.
HasPlainStatus(p) == HasFirstStatus(p) /\ ~HasErrorsField(p)

\* The payload p with the statuses field of its first change removed.
WithoutStatuses(p) ==
    [ p EXCEPT ![1].changes[1].value.statuses = Undefined ]

\* C16: with configuration present, a first status without errors field is
\* no error path.  The invocation never calls or awaits deleteSession,
\* passes processErrors without catching anything, and reports nothing
\* unless resumeWhatsAppFlow rejects later on; it ends by resuming the flow
\* once if the first message is actionable, and by answering
\* {message: "No message content found"} without any call if it is not.
\* And an invocation called with the same payload less its statuses makes
\* the same calls and gives the same response.
C16_PlainStatusIsNoError ==
    \A i \in Invocations :
        ( ConfigPresent /\ HasPlainStatus(input[i]) ) =>
            /\ Count(i, "deleteSession") = 0
            /\ settled[i].deleteSession = "none"
            /\ pc[i] \in { "start", "extract", "awaitResume", "catch", "done" }
            /\ ( pc[i] = "catch" \/ caught[i] # NoError \/ Reports(i) > 0 ) =>
                  settled[i].resumeWhatsAppFlow = "rejected"
            /\ Finished(i) =>
                  IF HasActionableMessage(input[i])
                  THEN /\ Count(i, "resumeWhatsAppFlow") = 1
                       /\ response[i] =
                              Returned([ message |-> "Message received" ])
                  ELSE /\ AllCallsOf(i) = <<>>
                       /\ response[i] =
                              Returned([ message |->
                                             "No message content found" ])
            /\ \A j \in Invocations :
                  ( /\ Finished(i) /\ Finished(j)
                    /\ input[j] = WithoutStatuses(input[i])
                    /\ SameCollaborators(i, j) ) =>
                      TraceOf(i) = TraceOf(j) /\ response[i] = response[j]

\* Two finished invocations that both resumed the flow, one called with a
\* delivery status without errors next to the message, the other with the
\* same payload less the status.
C16_Witness ==
    \E i, j \in Invocations :
        /\ ConfigPresent /\ Finished(i) /\ Finished(j)
        /\ HasPlainStatus(input[i])
        /\ HasActionableMessage(input[i])
        /\ input[j] = WithoutStatuses(input[i])
        /\ SameCollaborators(i, j)
        /\ Count(i, "resumeWhatsAppFlow") = 1
        /\ Count(j, "resumeWhatsAppFlow") = 1

(***************************************************************************)
(* Termination.  The event loop runs every continuation that is ready, and *)
(* C17 supposes that every awaited collaborator call settles: each step of *)
(* the one invocation is taken if it stays enabled.  The payloads are those  *)
(* of PairPayloads, which take every path through the handler.             *)
(***************************************************************************)
InitFair == InitWith({1}, PairPayloads)

FairSpec ==
    /\ InitFair /\ [][Next]_vars
    /\ \A i \in {1} :
          /\ WF_vars(Mutation(i))
          /\ WF_vars(DeleteSessionSettles(i))
          /\ WF_vars(Dispatch(i))
          /\ WF_vars(ResumeSettles(i))
          /\ WF_vars(Catch(i))

\* How far an invocation has got: every step takes it to a later position.
Position(label) ==
    CASE label = "start" -> 0
      [] label = "awaitDeleteSession" -> 1
      [] label = "extract" -> 1
      [] label = "awaitResume" -> 2
      [] label = "catch" -> 3
      [] label = "done" -> 4

\* C17: provided the awaited collaborator calls settle, every invocation
\* ends, with an acknowledgment or with the configuration error.  It never
\* goes back: each step takes it to a later position, so nothing is looped
\* over or retried.  It awaits deleteSession at most once and
\* resumeWhatsAppFlow at most once, and never both.
C17_Terminates ==
    /\ <>( \A i \in Invocations : Finished(i) )
    /\ []( \A i \in Invocations :
              /\ Finished(i) =>
                    \/ ConfigPresent /\ response[i].kind = "returned"
                    \/ ~ConfigPresent /\ response[i].kind = "thrown"
              /\ Count(i, "deleteSession") <= 1
              /\ Count(i, "resumeWhatsAppFlow") <= 1
              /\ Count(i, "deleteSession") + Count(i, "resumeWhatsAppFlow") <= 1
              /\ ~( /\ settled[i].deleteSession # "none"
                    /\ settled[i].resumeWhatsAppFlow # "none" ) )
    /\ [][ \A i \in Invocations :
              pc'[i] # pc[i] => Position(pc'[i]) > Position(pc[i]) ]_vars

\* An invocation that has ended after awaiting a deleteSession call that
\* resolved.
C17_Witness ==
    \E i \in Invocations :
        /\ ConfigPresent /\ Finished(i)
        /\ settled[i].deleteSession = "resolved"
        /\ response[i].kind = "returned"

(***************************************************************************)
(* Concurrent deliveries for several sessions.  Two webhook calls run      *)
(* interleaved; the recipient of the first status and the sender of the    *)
(* first message of each range over Ids, independently of each other.      *)
(***************************************************************************)
CrossDelivery(recipient, sender, unengaged) ==
    << [ changes |-> <<
           [ value |->
               [ statuses |->
                     Def(<< [ recipient_id |-> recipient,
                              errors |->
                                  IF unengaged
                                  THEN Def(<< [ code |->
                                        incomingWebhookErrorCodes.unengaged,
                                                error_data |-> Undefined ] >>)
                                  ELSE Undefined ] >>),
                 messages |-> Def(<< [ type |-> "text", from |-> sender ] >>),
                 contacts |-> Undefined ] ] >> ] >>

SenderPayloads ==
    { MessageDelivery(x) : x \in Ids } \cup
    { UnengagedDelivery(x) : x \in Ids } \cup
    { CrossDelivery(x, y, u) : x \in Ids, y \in Ids, u \in BOOLEAN }

InitSenders == InitWith({1, 2}, SenderPayloads)

SpecSenders == InitSenders /\ [][Next]_vars

\* The calls made so far that act on a session.
SessionCalls ==
    SelectSeq(calls, LAMBDA c : c.fn \in { "deleteSession",
                                           "resumeWhatsAppFlow" })

\* The identifiers a payload names where the handler reads them: the
\* recipient of the first status and the sender of the first message.
NamedIds(p) ==
    ( IF HasFirstStatus(p) THEN { StatusOf(p).recipient_id } ELSE {} ) \cup
    ( IF HasFirstMessage(p) THEN { MessageOf(p).from } ELSE {} )

\* C18: every deleteSession call of an invocation carries "wa-preview-"
\* followed by the recipient_id of the first status of its own payload, and
\* every resumeWhatsAppFlow call "wa-preview-" followed by the from of its
\* own first message.  So calls of two invocations whose payloads name
\* different identifiers never carry the same session id, and a deletion
\* for recipient X and a resumption for sender X carry the identical one.
C18_SessionIdsFromOwnPayload ==
    \A k \in 1..Len(SessionCalls) :
        LET c == SessionCalls[k]
            p == input[c.inv]
        IN  /\ c.fn = "deleteSession" =>
                  /\ HasFirstStatus(p)
                  /\ c.arg.sessionId =
                         "wa-preview-" \o StatusOf(p).recipient_id
            /\ c.fn = "resumeWhatsAppFlow" =>
                  /\ HasFirstMessage(p)
                  /\ c.arg.sessionId = "wa-preview-" \o MessageOf(p).from
            /\ \A l \in 1..Len(SessionCalls) :
                  LET d == SessionCalls[l]
                      q == input[d.inv]
                  IN  /\ NamedIds(p) \cap NamedIds(q) = {} =>
                            c.arg.sessionId # d.arg.sessionId
                      /\ ( /\ c.fn = "deleteSession"
                           /\ d.fn = "resumeWhatsAppFlow"
                           /\ StatusOf(p).recipient_id = MessageOf(q).from ) =>
                            c.arg.sessionId = d.arg.sessionId

\* Two invocations in flight at once, one awaiting the deletion of the
\* session of recipient X and the other the resumption of the flow for
\* sender X, their two calls carrying the same session id.
C18_Witness ==
    \E i, j \in Invocations :
        /\ i # j
        /\ pc[i] = "awaitDeleteSession" /\ pc[j] = "awaitResume"
        /\ StatusOf(input[i]).recipient_id = MessageOf(input[j]).from
        /\ \E c \in { SessionCalls[k] : k \in 1..Len(SessionCalls) } :
           \E d \in { SessionCalls[k] : k \in 1..Len(SessionCalls) } :
              /\ c.inv = i /\ c.fn = "deleteSession"
              /\ d.inv = j /\ d.fn = "resumeWhatsAppFlow"
              /\ c.arg.sessionId = d.arg.sessionId

====
